---- MODULE Spec2Model ----
(***************************************************************************)
(* Scripted world generator of VoxelEngine-Cpp:                            *)
(*   src/src/logic/scripting/scripting_world_generation.cpp                *)
(*                                                                         *)
(* The definition loader (load_layer, load_layers, load_biome,             *)
(* load_generator) is modelled by operators computed as the code computes  *)
(* them; the loaded generator (LuaGeneratorScript) is a state machine      *)
(* whose generateHeightmap is split at its calls into the Lua C API, which *)
(* all act on the one stack of the main Lua thread.                        *)
(*                                                                         *)
(* Strings built by concatenation are sequences of tokens, so that a       *)
(* prefix added twice is seen twice.  Floats of the definition are small   *)
(* integers (exactly representable).                                       *)
(***************************************************************************)
EXTENDS Integers, Sequences, FiniteSets, TLC

VARIABLES
    layersCall,     \* the last load_layers call: its input and what it gave
    loadCall,       \* the last load_generator call: its input and what it gave
    biomes,         \* LuaGeneratorScript::biomes
    biomeParameters,\* LuaGeneratorScript::biomeParameters
    hasEntry,       \* whether env defines generate_heightmap
    content,        \* the Content registry handed to prepare: block name -> id
    stack,          \* the stack of lua::get_main_thread()
    pc,             \* per thread: where it is inside generateHeightmap
    size,           \* per thread: the size argument of its call
    map,            \* per thread: the local `map` (line 39)
    ret,            \* per thread: what its last call returned
    path,           \* per thread: which branch its call took (history)
    base,           \* per thread: depth of the stack when its call began (history)
    crashed,        \* the process was ended by a fault (null dereference, Lua panic)
    prepStatus,     \* outcome of the last prepare call (history)
    prepBefore,     \* biomes as they were when the last prepare call began (history)
    prepCount       \* number of prepare calls made (history, capped)

vars == <<layersCall, loadCall, biomes, biomeParameters, hasEntry, content,
          stack, pc, size, map, ret, path, base, crashed,
          prepStatus, prepBefore, prepCount>>

loaderVars == <<layersCall, loadCall>>
generatorVars == <<biomes, biomeParameters, hasEntry, content>>
prepareVars == <<prepStatus, prepBefore, prepCount>>
callVars == <<stack, pc, size, map, ret, path, base, crashed>>

(***************************************************************************)
(* Bounds of the model.                                                    *)
(***************************************************************************)
MaxLayers == 3          \* longest layer list given to load_layers alone
MaxBiomeLayers == 2     \* longest layer list inside a generator definition
MaxBiomes == 2          \* most biomes in a generator definition
MaxParams == 2          \* largest biome_parameters and longest parameters list
MaxDefEntries == 4      \* most list entries (parameters, layers) in a generator definition
MaxSize == 1            \* largest heightmap extent asked for
MaxResults == 2         \* most values the scripted entry point returns
MaxPrepares == 2        \* most prepare calls counted
MaxDepth == 1           \* a call begins only while the stack is no deeper than this

(***************************************************************************)
(* Helpers on sequences.                                                   *)
(***************************************************************************)
SeqsUpTo(S, n) == UNION {[1..k -> S] : k \in 0..n}

RECURSIVE SumSeq(_)
SumSeq(s) == IF s = <<>> THEN 0 ELSE Head(s) + SumSeq(Tail(s))

\* std::to_string of a non-negative integer, as a sequence of digit tokens
DecimalDigit == <<"0", "1", "2", "3", "4", "5", "6", "7", "8", "9">>

RECURSIVE to_string(_)
to_string(n) ==
    IF n < 10 THEN <<DecimalDigit[n + 1]>>
    ELSE to_string(n \div 10) \o <<DecimalDigit[(n % 10) + 1]>>

(***************************************************************************)
(* std::runtime_error and the value-or-exception result of a function.     *)
(***************************************************************************)
Thrown(what) == [ok |-> FALSE, what |-> what]
Returned(value) == [ok |-> TRUE, value |-> value]

(***************************************************************************)
(* load_layer (lines 72-89).  `raw` is the Lua table of one layer; the two *)
(* reference parameters are part of the result.  lastLayersHeight is a     *)
(* uint and height an int: the heights of the model are >= -1, so the only *)
(* negative addend is the one of a second elastic layer, where the         *)
(* function throws and load_layers drops the sum; every other sum is exact *)
(* (far below 2^32).                                                       *)
(***************************************************************************)
ElasticHeight == -1

BlocksLayer(name, height, belowSeaLevel) ==
    [block |-> name, height |-> height, belowSeaLevel |-> belowSeaLevel,
     rt |-> [id |-> 0]]

\* lua::get_boolean_field(L, "below_sea_level", true): the default when absent
get_below_sea_level(raw) ==
    IF raw.below_sea_level = "nil" THEN TRUE ELSE raw.below_sea_level = "true"

\* load_layer without the check of lines 83-85
load_layer_unchecked(raw, lastLayersHeight, hasResizeableLayer) ==
    [ok |-> TRUE,
     value |-> BlocksLayer(raw.block, raw.height, get_below_sea_level(raw)),
     lastLayersHeight |-> IF hasResizeableLayer
                          THEN lastLayersHeight + raw.height
                          ELSE lastLayersHeight,
     hasResizeableLayer |-> (hasResizeableLayer \/ raw.height = ElasticHeight)]

\* load_layer adding every height, whether or not an elastic layer was seen
load_layer_sums_all(raw, lastLayersHeight, hasResizeableLayer) ==
    IF raw.height = ElasticHeight /\ hasResizeableLayer
    THEN Thrown(<<"only one resizeable layer allowed">>)
    ELSE [ok |-> TRUE,
          value |-> BlocksLayer(raw.block, raw.height, get_below_sea_level(raw)),
          lastLayersHeight |-> lastLayersHeight + raw.height,
          hasResizeableLayer |-> (hasResizeableLayer \/ raw.height = ElasticHeight)]

load_layer(raw, lastLayersHeight, hasResizeableLayer) ==
    LET name == raw.block
        height == raw.height
        belowSeaLevel == get_below_sea_level(raw)
        last1 == IF hasResizeableLayer
                 THEN lastLayersHeight + height
                 ELSE lastLayersHeight
    IN  IF height = ElasticHeight /\ hasResizeableLayer
        THEN Thrown(<<"only one resizeable layer allowed">>)
        ELSE [ok |-> TRUE,
              value |-> BlocksLayer(name, height, belowSeaLevel),
              lastLayersHeight |-> last1,
              hasResizeableLayer |-> (hasResizeableLayer \/ height = ElasticHeight)]

(***************************************************************************)
(* load_layers (lines 91-114).  `tbl` is the biome table on top of the     *)
(* stack: tbl.present are the fields it has.                               *)
(***************************************************************************)
getfield(tbl, fieldname) == fieldname \in tbl.present

FieldValue(tbl, fieldname) ==
    IF fieldname = "layers" THEN tbl.layers ELSE tbl.sea_layers

RECURSIVE load_layers_loop(_, _, _, _, _, _)
load_layers_loop(list, i, layers, lastLayersHeight, hasResizeableLayer, fieldname) ==
    IF i > Len(list)
    THEN Returned([layers |-> layers, lastLayersHeight |-> lastLayersHeight])
    ELSE LET r == load_layer(list[i], lastLayersHeight, hasResizeableLayer)
         IN  IF ~r.ok
             THEN Thrown(<<fieldname, " #">> \o to_string(i) \o <<": ">> \o r.what)
             ELSE load_layers_loop(list, i + 1, Append(layers, r.value),
                                   r.lastLayersHeight, r.hasResizeableLayer,
                                   fieldname)

load_layers(tbl, fieldname) ==
    IF getfield(tbl, fieldname)
    THEN load_layers_loop(FieldValue(tbl, fieldname), 1, <<>>, 0, FALSE, fieldname)
    ELSE Returned([layers |-> <<>>, lastLayersHeight |-> 0])

(***************************************************************************)
(* load_biome (lines 116-150).  `tbl` is the biome's table, `name` its key.*)
(* The vector is constructed with parametersCount value-initialised        *)
(* entries (line 121) and every parameter read is appended (line 131).     *)
(***************************************************************************)
DefaultBiomeParameter == [value |-> 0, weight |-> 0]

BiomeParameter(raw) == [value |-> raw.value, weight |-> raw.weight]

RECURSIVE load_parameters_loop(_, _, _, _)
load_parameters_loop(list, i, parametersCount, parameters) ==
    IF i > parametersCount
    THEN parameters
    ELSE load_parameters_loop(list, i + 1, parametersCount,
                              Append(parameters, BiomeParameter(list[i])))

BiomePrefix(name) == <<"biome ", name, ": ">>

load_biome(tbl, name, parametersCount) ==
    LET parameters0 == [i \in 1..parametersCount |-> DefaultBiomeParameter]
    IN  IF Len(tbl.parameters) < parametersCount
        THEN Thrown(to_string(parametersCount) \o <<" parameters expected">>)
        ELSE LET parameters == load_parameters_loop(tbl.parameters, 1,
                                                    parametersCount, parameters0)
                 groundLayers == load_layers(tbl, "layers")
                 seaLayers == load_layers(tbl, "sea_layers")
             IN  IF ~groundLayers.ok
                 THEN Thrown(BiomePrefix(name) \o groundLayers.what)
                 ELSE IF ~seaLayers.ok
                 THEN Thrown(BiomePrefix(name) \o seaLayers.what)
                 ELSE Returned([name |-> name,
                                parameters |-> parameters,
                                groundLayers |-> groundLayers.value,
                                seaLayers |-> seaLayers.value])

(***************************************************************************)
(* scripting::load_generator (lines 152-191).  `def` is what the script    *)
(* left in its environment: biome_parameters (optional) and the biomes     *)
(* table as the sequence of its entries in lua::next order.                *)
(***************************************************************************)
\* lua::get_integer_field(L, "biome_parameters", 0, 0, 16): 0 when absent
get_biome_parameters(def) ==
    IF def.has_biome_parameters THEN def.biome_parameters ELSE 0

RECURSIVE load_biomes_loop(_, _, _, _)
load_biomes_loop(entries, k, parametersCount, loaded) ==
    IF k > Len(entries)
    THEN Returned(loaded)
    ELSE LET biomeName == entries[k].name
             r == load_biome(entries[k].tbl, biomeName, parametersCount)
         IN  IF ~r.ok
             THEN Thrown(BiomePrefix(biomeName) \o r.what)
             ELSE load_biomes_loop(entries, k + 1, parametersCount,
                                   Append(loaded, r.value))

load_generator(def) ==
    LET parametersCount == get_biome_parameters(def)
        r == load_biomes_loop(def.biomes, 1, parametersCount, <<>>)
    IN  IF ~r.ok
        THEN r
        ELSE Returned([biomes |-> r.value,
                       biomeParameters |-> parametersCount,
                       hasEntry |-> def.generate_heightmap])

(***************************************************************************)
(* Inputs of the loader.                                                   *)
(***************************************************************************)
BlockNames == {"grass", "dirt", "stone"}
Heights == {ElasticHeight, 1, 20}
BelowSeaLevelValues == {"nil", "false"}
FieldNames == {"layers", "sea_layers"}

\* the layer entries of the lists given to load_layers alone: every block
\* with every height; stone layers set below_sea_level, the others leave it out
RawLayers ==
    {r \in [block : BlockNames, height : Heights,
            below_sea_level : BelowSeaLevelValues] :
        r.below_sea_level = "false" <=> r.block = "stone"}

\* a table holding one layer list under `fieldname` and nothing under the other
LayersTable(fieldname, list) ==
    [present |-> {fieldname, "parameters"},
     parameters |-> <<>>,
     layers |-> IF fieldname = "layers" THEN list ELSE <<>>,
     sea_layers |-> IF fieldname = "sea_layers" THEN list ELSE <<>>]

RawParameters == {[value |-> 1, weight |-> 2], [value |-> 3, weight |-> 4]}
BiomeNames == {"plains", "desert"}

\* the layer entries used inside whole generator definitions
DefRawLayers ==
    {[block |-> "dirt", height |-> ElasticHeight, below_sea_level |-> "nil"],
     [block |-> "stone", height |-> 1, below_sea_level |-> "false"]}

BiomeTables ==
    {[present |-> {"parameters", "layers"} \cup opt,
      parameters |-> ps,
      layers |-> ls,
      sea_layers |-> IF opt = {} THEN <<>> ELSE ss] :
        ps \in SeqsUpTo(RawParameters, MaxParams),
        ls \in SeqsUpTo(DefRawLayers, MaxBiomeLayers),
        ss \in SeqsUpTo(DefRawLayers, MaxBiomeLayers),
        opt \in {{}, {"sea_layers"}}}

\* the keys of a Lua table are distinct
DistinctNames(entries) ==
    \A a, b \in 1..Len(entries) : a # b => entries[a].name # entries[b].name

\* number of list entries (parameters and layers) a definition holds
RECURSIVE DefEntries(_)
DefEntries(entries) ==
    IF entries = <<>> THEN 0
    ELSE Len(Head(entries).tbl.parameters) + Len(Head(entries).tbl.layers)
         + Len(Head(entries).tbl.sea_layers) + DefEntries(Tail(entries))

BiomesTables ==
    {entries \in SeqsUpTo([name : BiomeNames, tbl : BiomeTables], MaxBiomes) :
        DistinctNames(entries) /\ DefEntries(entries) <= MaxDefEntries}

\* the result of a call that was not made yet
NoResult == Thrown(<<>>)

NoCall == [called |-> FALSE, fieldname |-> "layers", present |-> FALSE,
           list |-> <<>>, out |-> NoResult]

NoLoad == [called |-> FALSE, def |-> <<>>, out |-> NoResult]

(***************************************************************************)
(* The loader alone: a load_layers call on any layer list (a table that    *)
(* lacks the field has no list), a load_generator call on any definition.  *)
(* The input is drawn before the call; the action is the call.             *)
(***************************************************************************)
LayersInputs ==
    {[called |-> FALSE, fieldname |-> fieldname, present |-> present,
      list |-> list, out |-> NoResult] :
        fieldname \in FieldNames, present \in BOOLEAN,
        list \in SeqsUpTo(RawLayers, MaxLayers)}

LoadLayers ==
    /\ ~layersCall.called
    /\ layersCall' =
          [layersCall EXCEPT
              !.called = TRUE,
              !.out = load_layers(
                  [LayersTable(layersCall.fieldname, layersCall.list) EXCEPT
                      !.present = IF layersCall.present
                                  THEN @ ELSE @ \ {layersCall.fieldname}],
                  layersCall.fieldname)]
    /\ UNCHANGED <<loadCall, generatorVars, prepareVars, callVars>>

LoadGenerator ==
    /\ ~loadCall.called
    /\ loadCall' = [loadCall EXCEPT !.called = TRUE,
                                    !.out = load_generator(loadCall.def)]
    /\ UNCHANGED <<layersCall, generatorVars, prepareVars, callVars>>

(***************************************************************************)
(* LuaGeneratorScript::prepare (lines 48-57).  content->blocks.require     *)
(* throws for a name the registry lacks; the layers bound before it keep   *)
(* the ids written to them.                                                *)
(***************************************************************************)
BlockId == [b \in BlockNames |->
               IF b = "grass" THEN 1 ELSE IF b = "dirt" THEN 2 ELSE 3]

\* one of the two inner loops: layers from i on, up to the first throw
RECURSIVE bind_layers(_, _, _)
bind_layers(layers, i, registry) ==
    IF i > Len(layers)
    THEN [threw |-> FALSE, layers |-> layers]
    ELSE IF layers[i].block \notin DOMAIN registry
    THEN [threw |-> TRUE, layers |-> layers]
    ELSE bind_layers([layers EXCEPT ![i].rt.id = registry[layers[i].block]],
                     i + 1, registry)

\* prepare without its second inner loop (lines 53-55)
bind_biome_ground_only(biome, registry) ==
    LET g == bind_layers(biome.groundLayers.layers, 1, registry)
    IN  [threw |-> g.threw,
         biome |-> [biome EXCEPT !.groundLayers.layers = g.layers]]

bind_biome(biome, registry) ==
    LET g == bind_layers(biome.groundLayers.layers, 1, registry)
        s == bind_layers(biome.seaLayers.layers, 1, registry)
        b1 == [biome EXCEPT !.groundLayers.layers = g.layers]
    IN  IF g.threw
        THEN [threw |-> TRUE, biome |-> b1]
        ELSE [threw |-> s.threw,
              biome |-> [b1 EXCEPT !.seaLayers.layers = s.layers]]

RECURSIVE prepare_loop(_, _, _)
prepare_loop(bs, k, registry) ==
    IF k > Len(bs)
    THEN [threw |-> FALSE, biomes |-> bs]
    ELSE LET r == bind_biome(bs[k], registry)
             bs1 == [bs EXCEPT ![k] = r.biome]
         IN  IF r.threw
             THEN [threw |-> TRUE, biomes |-> bs1]
             ELSE prepare_loop(bs1, k + 1, registry)

prepare(bs, registry) == prepare_loop(bs, 1, registry)

(***************************************************************************)
(* Heightmaps.                                                             *)
(***************************************************************************)
NoMap == [kind |-> "none", dims |-> <<>>, samples |-> 0]

\* the default heightmap with its extents exchanged
DefaultHeightmapTransposed(sz) ==
    [kind |-> "default", dims |-> <<sz[2], sz[1]>>, samples |-> sz[1] * sz[2]]

\* std::make_shared<Heightmap>(size.x, size.y)
DefaultHeightmap(sz) ==
    [kind |-> "default", dims |-> <<sz[1], sz[2]>>, samples |-> sz[1] * sz[2]]

\* the Heightmap held by a LuaHeightmap userdata
ScriptHeightmap == [kind |-> "script", dims |-> <<>>, samples |-> 0]

\* what a read through a null LuaHeightmap* gives when it does not fault
GarbageHeightmap == [kind |-> "garbage", dims |-> <<>>, samples |-> 0]

(***************************************************************************)
(* The threads that call generateHeightmap, and the values of the stack.   *)
(***************************************************************************)
Threads == {"t1", "t2"}
MainThread == "t1"

Sizes == (0..MaxSize) \X (0..MaxSize)

\* what the scripted entry point may return
ResultKinds == {"heightmap", "nil", "number", "table"}
ScriptResults == SeqsUpTo(ResultKinds, MaxResults)

Pop(s, n) == SubSeq(s, 1, Len(s) - n)
Top(s) == s[Len(s)]

(***************************************************************************)
(* The generator after construction by load_generator, for the             *)
(* definitions below: the scenario's "plains" and a biome with sea layers. *)
(***************************************************************************)
Layer(b, h) == [block |-> b, height |-> h, below_sea_level |-> "nil"]

PlainsTable ==
    [present |-> {"parameters", "layers"},
     parameters |-> <<[value |-> 1, weight |-> 2], [value |-> 3, weight |-> 4]>>,
     layers |-> <<Layer("grass", 1), Layer("dirt", ElasticHeight), Layer("stone", 20)>>,
     sea_layers |-> <<>>]

DesertTable ==
    [present |-> {"parameters", "layers", "sea_layers"},
     parameters |-> <<[value |-> 3, weight |-> 4], [value |-> 1, weight |-> 2]>>,
     layers |-> <<Layer("dirt", 1), Layer("stone", ElasticHeight)>>,
     sea_layers |-> <<Layer("dirt", ElasticHeight), Layer("grass", 1)>>]

Plains == [name |-> "plains", tbl |-> PlainsTable]
Desert == [name |-> "desert", tbl |-> DesertTable]

RunDefs ==
    {[has_biome_parameters |-> TRUE,
      biome_parameters |-> 2,
      biomes |-> entries,
      generate_heightmap |-> g] :
        entries \in {<<Plains>>, <<Desert, Plains>>},
        g \in BOOLEAN}

\* a Content registry: the blocks it holds, each with its runtime id
Registries == {[b \in S |-> BlockId[b]] : S \in SUBSET BlockNames}

InitGenerator(defs, registries) ==
    /\ layersCall = NoCall
    /\ \E def \in defs :
          /\ loadCall = [called |-> TRUE, def |-> def, out |-> load_generator(def)]
          /\ loadCall.out.ok
          /\ biomes = loadCall.out.value.biomes
          /\ biomeParameters = loadCall.out.value.biomeParameters
          /\ hasEntry = loadCall.out.value.hasEntry
    /\ content \in registries
    /\ stack = <<>>
    /\ pc = [t \in Threads |-> "idle"]
    /\ size = [t \in Threads |-> <<0, 0>>]
    /\ map = [t \in Threads |-> NoMap]
    /\ ret = [t \in Threads |-> NoMap]
    /\ path = [t \in Threads |-> "none"]
    /\ base = [t \in Threads |-> 0]
    /\ crashed = FALSE
    /\ prepStatus = "none"
    /\ prepBefore = biomes
    /\ prepCount = 0

\* no generator is loaded: the state around a call of the loader
NoGenerator ==
    /\ biomes = <<>>
    /\ biomeParameters = 0
    /\ hasEntry = FALSE
    /\ content = << >>
    /\ stack = <<>>
    /\ pc = [t \in Threads |-> "idle"]
    /\ size = [t \in Threads |-> <<0, 0>>]
    /\ map = [t \in Threads |-> NoMap]
    /\ ret = [t \in Threads |-> NoMap]
    /\ path = [t \in Threads |-> "none"]
    /\ base = [t \in Threads |-> 0]
    /\ crashed = FALSE
    /\ prepStatus = "none"
    /\ prepBefore = <<>>
    /\ prepCount = 0

InitLayers ==
    /\ layersCall \in LayersInputs
    /\ (layersCall.present \/ layersCall.list = <<>>)
    /\ loadCall = NoLoad
    /\ NoGenerator

InitLoad ==
    /\ layersCall = NoCall
    /\ \E has \in BOOLEAN, n \in 0..MaxParams, entries \in BiomesTables :
          /\ has \/ n = 0
          /\ loadCall = [called |-> FALSE,
                         def |-> [has_biome_parameters |-> has,
                                  biome_parameters |-> n,
                                  biomes |-> entries,
                                  generate_heightmap |-> FALSE],
                         out |-> NoResult]
    /\ NoGenerator

(***************************************************************************)
(* prepare as an operation of the loaded generator.  A failed call ends by *)
(* the exception of require; the generator object stays as the loop left   *)
(* it.  The caller is the thread that also generates, between its calls.   *)
(***************************************************************************)
Prepare ==
    /\ ~crashed
    /\ \A t \in Threads : pc[t] = "idle"
    /\ prepCount < MaxPrepares
    /\ LET r == prepare(biomes, content)
       IN  /\ biomes' = r.biomes
           /\ prepStatus' = IF r.threw THEN "failed" ELSE "ok"
    /\ prepBefore' = biomes
    /\ prepCount' = prepCount + 1
    /\ UNCHANGED <<loaderVars, biomeParameters, hasEntry, content, callVars>>

(***************************************************************************)
(* generateHeightmap (lines 29-46), one action per call into the Lua API.  *)
(* Every index is relative to the top of the one shared stack.             *)
(***************************************************************************)

\* lines 32-33: get_main_thread, pushenv
Enter(t) ==
    /\ ~crashed
    /\ pc[t] = "idle"
    /\ Len(stack) <= MaxDepth
    /\ \E sz \in Sizes : size' = [size EXCEPT ![t] = sz]
    /\ stack' = Append(stack, "env")
    /\ base' = [base EXCEPT ![t] = Len(stack)]
    /\ path' = [path EXCEPT ![t] = "entered"]
    /\ map' = [map EXCEPT ![t] = NoMap]
    /\ ret' = [ret EXCEPT ![t] = NoMap]
    /\ pc' = [pc EXCEPT ![t] = "getfield"]
    /\ UNCHANGED <<loaderVars, generatorVars, prepareVars, crashed>>

\* line 34: lua::getfield pushes the field and pops it again when it is nil.
\* Indexing a value that is no table (another thread's value on top) raises a
\* Lua error outside any protected call, which ends the process.
GetField(t) ==
    /\ ~crashed
    /\ pc[t] = "getfield"
    /\ IF stack # <<>> /\ Top(stack) \in {"env", "table"}
       THEN IF Top(stack) = "env" /\ hasEntry
            THEN /\ stack' = Append(stack, "func")
                 /\ pc' = [pc EXCEPT ![t] = "pushargs"]
                 /\ UNCHANGED <<path, crashed>>
            ELSE /\ path' = [path EXCEPT ![t] = "absent"]
                 /\ pc' = [pc EXCEPT ![t] = "popdefault"]
                 /\ UNCHANGED <<stack, crashed>>
       ELSE /\ crashed' = TRUE
            /\ UNCHANGED <<stack, pc, path>>
    /\ UNCHANGED <<loaderVars, generatorVars, prepareVars, size, map, ret, base>>

\* lines 35-37: offset (2 values), size (2 values), seed
PushArgs(t) ==
    /\ ~crashed
    /\ pc[t] = "pushargs"
    /\ stack' = stack \o <<"arg", "arg", "arg", "arg", "arg">>
    /\ pc' = [pc EXCEPT ![t] = "call"]
    /\ UNCHANGED <<loaderVars, generatorVars, prepareVars,
                   size, map, ret, path, base, crashed>>

\* what lua::call_nothrow(L, argc) leaves on the stack: the callee and its
\* arguments are removed; a successful call leaves every value the callee
\* returned (the caller passes no result count), a failed call leaves nothing
\* (the helper reports the error and removes it, as the single pop of line 44
\* expects).
call_nothrow(stk, argc, outcome) ==
    LET below == Pop(stk, argc + 1)
    IN  IF outcome.ok THEN below \o outcome.results ELSE below

\* a value that is no function cannot be called: the call fails
CallOutcomes(callee) ==
    {[ok |-> FALSE, results |-> <<>>]}
    \cup (IF callee = "func"
          THEN {[ok |-> TRUE, results |-> r] : r \in ScriptResults}
          ELSE {})

\* line 38
Call(t) ==
    /\ ~crashed
    /\ pc[t] = "call"
    /\ IF Len(stack) >= 6
       THEN \E outcome \in CallOutcomes(stack[Len(stack) - 5]) :
               /\ stack' = call_nothrow(stack, 5, outcome)
               /\ path' = [path EXCEPT ![t] = IF outcome.ok THEN "ok" ELSE "failed"]
               /\ pc' = [pc EXCEPT ![t] = IF outcome.ok THEN "unwrap" ELSE "popdefault"]
               /\ UNCHANGED crashed
       ELSE /\ crashed' = TRUE
            /\ UNCHANGED <<stack, pc, path>>
    /\ UNCHANGED <<loaderVars, generatorVars, prepareVars, size, map, ret, base>>

\* line 39: touserdata<LuaHeightmap>(L, -1)->getHeightmap().  For a value
\* that is no userdata the pointer is null and the call through it is
\* undefined: the process faults, or goes on with whatever was read.
UnwrapOutcomes(stk) ==
    IF stk # <<>> /\ Top(stk) = "heightmap"
    THEN {[fault |-> FALSE, map |-> ScriptHeightmap]}
    ELSE {[fault |-> TRUE, map |-> NoMap], [fault |-> FALSE, map |-> GarbageHeightmap]}

Unwrap(t) ==
    /\ ~crashed
    /\ pc[t] = "unwrap"
    /\ \E o \in UnwrapOutcomes(stack) :
          /\ crashed' = o.fault
          /\ map' = [map EXCEPT ![t] = o.map]
          /\ pc' = [pc EXCEPT ![t] = IF o.fault THEN "unwrap" ELSE "pop2"]
    /\ UNCHANGED <<loaderVars, generatorVars, prepareVars, stack, size, ret, path, base>>

\* lua::pop(L, n); popping more than the stack holds is undefined: the
\* process faults, or goes on with an empty stack.
PopOutcomes(stk, n) ==
    IF Len(stk) >= n
    THEN {[fault |-> FALSE, stack |-> Pop(stk, n)]}
    ELSE {[fault |-> TRUE, stack |-> stk], [fault |-> FALSE, stack |-> <<>>]}

\* lines 40-41
PopResult(t) ==
    /\ ~crashed
    /\ pc[t] = "pop2"
    /\ \E o \in PopOutcomes(stack, 2) :
          /\ crashed' = o.fault
          /\ stack' = o.stack
          /\ ret' = [ret EXCEPT ![t] = IF o.fault THEN NoMap ELSE map[t]]
          /\ pc' = [pc EXCEPT ![t] = IF o.fault THEN "pop2" ELSE "idle"]
    /\ UNCHANGED <<loaderVars, generatorVars, prepareVars, size, map, path, base>>

\* lines 44-45
PopDefault(t) ==
    /\ ~crashed
    /\ pc[t] = "popdefault"
    /\ \E o \in PopOutcomes(stack, 1) :
          /\ crashed' = o.fault
          /\ stack' = o.stack
          /\ ret' = [ret EXCEPT ![t] =
                        IF o.fault THEN NoMap ELSE DefaultHeightmap(size[t])]
          /\ pc' = [pc EXCEPT ![t] = IF o.fault THEN "popdefault" ELSE "idle"]
    /\ UNCHANGED <<loaderVars, generatorVars, prepareVars, size, map, path, base>>

GenerateStep(t) ==
    \/ Enter(t)
    \/ GetField(t)
    \/ PushArgs(t)
    \/ Call(t)
    \/ Unwrap(t)
    \/ PopResult(t)
    \/ PopDefault(t)

(***************************************************************************)
(* Specifications.                                                         *)
(*   Spec         one thread uses the loaded generator: prepare and        *)
(*                generateHeightmap calls, one after the other             *)
(*   SpecThreads  worker threads call generateHeightmap with nothing       *)
(*                between them and the interpreter but the code of the     *)
(*                method                                                   *)
(*   SpecLayers   load_layers on any layer list                            *)
(*   SpecLoad     load_generator on any definition                         *)
(***************************************************************************)
Init == InitGenerator(RunDefs, Registries)

Next == Prepare \/ GenerateStep(MainThread)

Spec == Init /\ [][Next]_vars

ThreadDefs == {d \in RunDefs : d.biomes = <<Plains>>}

InitThreads == InitGenerator(ThreadDefs, {[b \in BlockNames |-> BlockId[b]]})

NextThreads == \E t \in Threads : GenerateStep(t)

SpecThreads == InitThreads /\ [][NextThreads]_vars

SpecLayers == InitLayers /\ [][LoadLayers]_vars

SpecLoad == InitLoad /\ [][LoadGenerator]_vars

(***************************************************************************)
(* Properties.                                                             *)
(***************************************************************************)
StartsWith(msg, prefix) ==
    Len(msg) >= Len(prefix) /\ SubSeq(msg, 1, Len(prefix)) = prefix

\* how many times the text "biome <name>: " occurs in a message
CountPrefix(msg, name) ==
    Cardinality({k \in 1..(Len(msg) - 2) : SubSeq(msg, k, k + 2) = BiomePrefix(name)})

ElasticPositions(list) == {i \in 1..Len(list) : list[i].height = ElasticHeight}

\* position of the second elastic entry of a list that has two
SecondElastic(list) ==
    CHOOSE i \in ElasticPositions(list) :
        Cardinality({j \in ElasticPositions(list) : j < i}) = 1

\* sum of the heights of the non-elastic entries after the first elastic one
FixedHeightAfterElastic(list) ==
    IF ElasticPositions(list) = {} THEN 0
    ELSE LET e == CHOOSE i \in ElasticPositions(list) :
                      \A j \in ElasticPositions(list) : i <= j
         IN  SumSeq([k \in 1..(Len(list) - e) |->
                        IF list[e + k].height = ElasticHeight
                        THEN 0 ELSE list[e + k].height])

ScenarioHeights == <<1, ElasticHeight, 20>>

HeightsOf(list) == [i \in 1..Len(list) |-> list[i].height]

\* C1: every biome load_generator returns has exactly biomeParameters
\* parameters, the i-th holding the value and weight of the i-th entry of the
\* definition's parameters list.
C1_ParametersAsDefined ==
    (loadCall.called /\ loadCall.out.ok) =>
        \A k \in 1..Len(loadCall.out.value.biomes) :
            LET b == loadCall.out.value.biomes[k]
                raw == loadCall.def.biomes[k].tbl.parameters
                n == loadCall.out.value.biomeParameters
            IN  /\ Len(b.parameters) = n
                /\ \A i \in 1..n : b.parameters[i] = BiomeParameter(raw[i])

\* C2: a layer list with two or more entries of height -1, wherever they are,
\* makes load_layers fail (no BlocksLayers value), and the error carries the
\* field name and the 1-based index of the second elastic entry.
C2_SecondElasticFails ==
    (layersCall.called /\ Cardinality(ElasticPositions(layersCall.list)) >= 2) =>
        /\ ~layersCall.out.ok
        /\ StartsWith(layersCall.out.what,
                      <<layersCall.fieldname, " #">>
                      \o to_string(SecondElastic(layersCall.list)) \o <<": ">>)

\* a list whose elastic entries are the first and the third, under sea_layers
C2_Witness ==
    /\ layersCall.called
    /\ layersCall.fieldname = "sea_layers"
    /\ ElasticPositions(layersCall.list) = {1, 3}
    /\ ~layersCall.out.ok

\* C3: when generate_heightmap is absent from the environment, or its call
\* fails, generateHeightmap returns a default heightmap of size.x by size.y
\* samples and no fault ends the call.
C3_DefaultOnAbsentOrFailed ==
    \A t \in Threads :
        path[t] \in {"absent", "failed"} =>
            /\ ~crashed
            /\ pc[t] = "idle" =>
                  /\ ret[t].kind = "default"
                  /\ ret[t].dims = size[t]
                  /\ ret[t].samples = size[t][1] * size[t][2]

\* a call whose scripted entry point failed has returned, for a size that is
\* not square
C3_Witness ==
    /\ pc[MainThread] = "idle"
    /\ path[MainThread] = "failed"
    /\ size[MainThread][1] # size[MainThread][2]
    /\ ret[MainThread].kind = "default"

\* C4: a prepare call that fails changes no layer's runtime block id.
C4_FailedPrepareChangesNothing ==
    prepStatus = "failed" => biomes = prepBefore

AllBound(bs, registry) ==
    \A k \in 1..Len(bs) :
        /\ \A i \in 1..Len(bs[k].groundLayers.layers) :
              LET layer == bs[k].groundLayers.layers[i]
              IN  layer.block \in DOMAIN registry /\ layer.rt.id = registry[layer.block]
        /\ \A i \in 1..Len(bs[k].seaLayers.layers) :
              LET layer == bs[k].seaLayers.layers[i]
              IN  layer.block \in DOMAIN registry /\ layer.rt.id = registry[layer.block]

\* C5: once a prepare call has succeeded, whatever generateHeightmap and
\* further prepare calls follow, every ground and sea layer of every biome
\* holds the registry's id of its block, and a further prepare leaves the
\* biomes as it found them.
C5_PreparedIdsMatchRegistry ==
    prepStatus = "ok" =>
        /\ AllBound(biomes, content)
        /\ prepCount >= 2 => biomes = prepBefore

\* two prepare calls and a generateHeightmap call were made on a generator
\* that has sea layers
C5_Witness ==
    /\ prepStatus = "ok"
    /\ prepCount = 2
    /\ ret[MainThread].kind # "none"
    /\ \E k \in 1..Len(biomes) : biomes[k].seaLayers.layers # <<>>

\* C6: at most one generateHeightmap call at a time is between its first
\* push onto the main Lua stack and its last pop from it.
C6_OneCallInsideInterpreter ==
    Cardinality({t \in Threads : pc[t] # "idle"}) <= 1

\* C7: the message of a load_generator failure that arose inside a biome
\* holds the prefix "biome <name>: " exactly once.
C7_BiomePrefixOnce ==
    (loadCall.called /\ ~loadCall.out.ok) =>
        \E name \in BiomeNames :
            /\ StartsWith(loadCall.out.what, BiomePrefix(name))
            /\ CountPrefix(loadCall.out.what, name) = 1

C9_AlwaysValidHeightmap ==
    /\ ~crashed
    /\ \A t \in Threads :
          (pc[t] = "idle" /\ path[t] # "none") => ret[t].kind \in {"default", "script"}

\* C10: after a generateHeightmap call the main Lua stack is as deep as it
\* was before the call.  (Stated for the calls that returned a default or a
\* scripted heightmap: of a call that went through the undefined read of
\* line 39 nothing can be said.)
C10_StackDepthRestored ==
    \A t \in Threads :
        (pc[t] = "idle" /\ ret[t].kind \in {"default", "script"}) =>
            Len(stack) = base[t]

====
